---- MODULE Spec2Model ----
(***************************************************************************)
(* Price refresh-and-cache pipeline of glint-server.                       *)
(*                                                                         *)
(*   src/api/prices.ts              on-demand read handler                 *)
(*   src/api/cron/update-prices.ts  scheduled refresh handler              *)
(*   src/lib/kv.ts                  key-value store (kvGet / kvSet)        *)
(*                                                                         *)
(* Every invocation of a handler is a process, suspended at each await.    *)
(* A call to the store takes two steps: the store serves it (kvGet reads   *)
(* what the store holds then, kvSet changes it then), and later the reply  *)
(* is back and the handler runs on; the kvGet of a chain's fallback is     *)
(* served and returned in one step, the chain reading neither the clock    *)
(* nor the store before Promise.all resolves in a step of its own.  Each   *)
(* candidate of a chain takes a step when the responses of its provider    *)
(* are in.  Other invocations and the clock may move between any two       *)
(* steps.  A handler that answers while one of its chains is suspended     *)
(* leaves that chain running to its end.                                   *)
(*                                                                         *)
(* Numbers are exact rationals <<numerator, denominator>>; instants are    *)
(* milliseconds since the epoch; updatedAt is the ISO-8601 text of an      *)
(* instant, kept as its fields <<year, month, day, hour, min, sec, ms>>.   *)
(***************************************************************************)
EXTENDS Integers, Sequences, FiniteSets, TLC

(***************************************************************************)
(* Bounds of the model.                                                    *)
(***************************************************************************)
\* Concurrent invocations (serverless instances running at the same time).
NumInv == 2
\* Clock advances in one behaviour.
MaxTicks == 1
\* Requests received in one behaviour.
MaxStarted == 2
\* Provider bodies in one behaviour that are not of the documented form.
MaxOdd == 1

(***************************************************************************)
(* Numbers.                                                                *)
(***************************************************************************)
RECURSIVE GCD(_, _)
GCD(a, b) == IF b = 0 THEN a ELSE GCD(b, a % b)

\* The rational n/d in lowest terms (n >= 0, d > 0).
Rat(n, d) == LET g == GCD(n, d) IN <<n \div g, d \div g>>

\* The values of JavaScript that are no finite number: a zero denominator.
NaN == <<0, 0>>
Null == <<1, 0>>
Undefined == <<2, 0>>
Infinity == <<3, 0>>
IsNumber(x) == x[2] # 0

\* JavaScript's a / b, for a and b non-negative numbers, null or undefined:
\* a missing field makes the quotient NaN, null counts as 0.
Div(a, b) ==
  LET x == IF a = Null THEN <<0, 1>> ELSE a
      y == IF b = Null THEN <<0, 1>> ELSE b
  IN  IF ~IsNumber(x) \/ ~IsNumber(y) THEN NaN
      ELSE IF y[1] = 0 THEN (IF x[1] = 0 THEN NaN ELSE Infinity)
      ELSE Rat(x[1] * y[2], x[2] * y[1])

\* An integer as a number.
Num(n) == <<n, 1>>

\* 31.1035
TROY_OZ_TO_GRAMS == Rat(311035, 10000)

\* 5 * 60 * 1000 milliseconds.
STALE_THRESHOLD_MS == 5 * 60 * 1000

(***************************************************************************)
(* Instants and their ISO-8601 text.                                       *)
(***************************************************************************)
MsPerDay == 24 * 60 * 60 * 1000

\* Date.prototype.toISOString: the civil date and time (UTC) of an instant.
ToISOString(ms) ==
  LET days == ms \div MsPerDay
      rem  == ms % MsPerDay
      z    == days + 719468
      era  == z \div 146097
      doe  == z - era * 146097
      yoe  == (doe - (doe \div 1460) + (doe \div 36524) - (doe \div 146096)) \div 365
      doy  == doe - (365 * yoe + (yoe \div 4) - (yoe \div 100))
      mp   == (5 * doy + 2) \div 153
      d    == doy - ((153 * mp + 2) \div 5) + 1
      m    == IF mp < 10 THEN mp + 3 ELSE mp - 9
      y    == yoe + era * 400 + (IF m <= 2 THEN 1 ELSE 0)
  IN  << y, m, d,
         rem \div 3600000, (rem % 3600000) \div 60000,
         (rem % 60000) \div 1000, rem % 1000 >>

\* new Date(text).getTime() of an ISO-8601 text.
GetTime(iso) ==
  LET y    == iso[1] - (IF iso[2] <= 2 THEN 1 ELSE 0)
      era  == y \div 400
      yoe  == y - era * 400
      mp   == IF iso[2] > 2 THEN iso[2] - 3 ELSE iso[2] + 9
      doy  == ((153 * mp + 2) \div 5) + iso[3] - 1
      doe  == yoe * 365 + (yoe \div 4) - (yoe \div 100) + doy
      days == era * 146097 + doe - 719468
  IN  days * MsPerDay + iso[4] * 3600000 + iso[5] * 60000 + iso[6] * 1000 + iso[7]

(***************************************************************************)
(* Snapshots (PriceData) and JSON.                                         *)
(***************************************************************************)
\* JSON.stringify then JSON.parse of one field: NaN and Infinity have no
\* JSON text and are written as null; an undefined field is left out and
\* reads as undefined again.
JsonNumber(x) == IF x = NaN \/ x = Infinity THEN Null ELSE x

\* JSON.parse(JSON.stringify(value)) of a PriceData: what the store keeps and
\* what res.json sends.
Json(snap) ==
  [ gold       |-> JsonNumber(snap.gold),
    silver     |-> JsonNumber(snap.silver),
    platinum   |-> JsonNumber(snap.platinum),
    currencies |-> [ ILS |-> JsonNumber(snap.currencies.ILS),
                     EUR |-> JsonNumber(snap.currencies.EUR),
                     GBP |-> JsonNumber(snap.currencies.GBP) ],
    updatedAt  |-> snap.updatedAt ]

\* { gold: 92.5, silver: 1.05, platinum: 31.2 }
DefaultMetals == [gold |-> Rat(925, 10), silver |-> Rat(105, 100), platinum |-> Rat(312, 10)]

\* { ILS: 3.65, EUR: 1.08, GBP: 1.27 }
DefaultCurrencies == [ILS |-> Rat(365, 100), EUR |-> Rat(108, 100), GBP |-> Rat(127, 100)]

\* { ...metals, currencies, updatedAt }
PriceData(metals, currencies, updatedAt) ==
  [ gold |-> metals.gold, silver |-> metals.silver, platinum |-> metals.platinum,
    currencies |-> currencies, updatedAt |-> updatedAt ]

\* { gold: cached.gold, silver: cached.silver, platinum: cached.platinum }
MetalsOf(snap) == [gold |-> snap.gold, silver |-> snap.silver, platinum |-> snap.platinum]

(***************************************************************************)
(* Upstream providers.  A response is what one fetch gave: the call was    *)
(* rejected (network error), resolved with a non-2xx status, resolved 2xx  *)
(* with a body json() cannot read, or resolved 2xx with a JSON body.       *)
(***************************************************************************)
Response(kind, value) == [kind |-> kind, value |-> value]

\* response.ok
ResOk(r) == r.kind \in {"ok", "badjson"}

\* Per-troy-ounce quotes of goldapi.io (the price field of each endpoint; a
\* body without the field reads as undefined).
XAU_Quotes == {Rat(311035, 100), Undefined, Null}
XAG_Quotes == {Num(31), Undefined, Null}
XPT_Quotes == {Num(1000), Undefined, Null}

\* Bodies of metals.dev: data.metals, per troy ounce.
MetalsDevQuotes ==
  { [gold |-> Num(3100), silver |-> Num(32), platinum |-> Num(990)],
    [gold |-> Undefined, silver |-> Undefined, platinum |-> Undefined],
    [gold |-> Num(3100), silver |-> Null, platinum |-> Num(0)] }

\* Bodies of frankfurter.dev: data.rates, from USD.
FrankfurterRates ==
  { [ILS |-> Rat(37, 10), EUR |-> Rat(9, 10), GBP |-> Rat(4, 5)],
    [ILS |-> Undefined, EUR |-> Undefined, GBP |-> Undefined],
    [ILS |-> Rat(37, 10), EUR |-> Num(0), GBP |-> Rat(4, 5)] }

Responses(bodies) ==
  {Response(k, Undefined) : k \in {"rejected", "notok", "badjson"}}
    \cup {Response("ok", b) : b \in bodies}

\* A candidate's result: <<value>> when it returned one, <<>> when it threw
\* or was abandoned.
Some(v) == <<v>>
None == <<>>

(***************************************************************************)
(* src/api/prices.ts: the provider chain of the on-demand handler.         *)
(***************************************************************************)
\* fetchMetals_GoldApi without its return statement: the values are computed
\* and dropped, and the function runs on to the next candidate.
fetchMetals_GoldApi_NoReturn(goldRes, silverRes, platRes) == None

\* fetchMetals_GoldApi taking what it got: each metal of a successful response
\* is converted, each other one is given its default.
fetchMetals_GoldApi_Partial(goldRes, silverRes, platRes) ==
  IF \A r \in {goldRes, silverRes, platRes} : r.kind # "ok"
    THEN None
    ELSE Some([ gold     |-> IF goldRes.kind = "ok"
                               THEN Div(goldRes.value, TROY_OZ_TO_GRAMS)
                               ELSE DefaultMetals.gold,
                silver   |-> IF silverRes.kind = "ok"
                               THEN Div(silverRes.value, TROY_OZ_TO_GRAMS)
                               ELSE DefaultMetals.silver,
                platinum |-> IF platRes.kind = "ok"
                               THEN Div(platRes.value, TROY_OZ_TO_GRAMS)
                               ELSE DefaultMetals.platinum ])

\* fetchMetals, the goldapi.io candidate: the try block under GOLDAPI_KEY.
fetchMetals_GoldApi(goldRes, silverRes, platRes) ==
  IF \E r \in {goldRes, silverRes, platRes} : r.kind = "rejected"
    THEN None
    ELSE IF ResOk(goldRes) /\ ResOk(silverRes) /\ ResOk(platRes)
      THEN IF \E r \in {goldRes, silverRes, platRes} : r.kind = "badjson"
             THEN None
             ELSE Some([ gold     |-> Div(goldRes.value, TROY_OZ_TO_GRAMS),
                         silver   |-> Div(silverRes.value, TROY_OZ_TO_GRAMS),
                         platinum |-> Div(platRes.value, TROY_OZ_TO_GRAMS) ])
      ELSE None

\* fetchMetals_MetalsDev without the conversion: per troy ounce, as received.
fetchMetals_MetalsDev_PerOunce(r) ==
  IF r.kind = "ok"
    THEN Some([gold |-> r.value.gold, silver |-> r.value.silver, platinum |-> r.value.platinum])
    ELSE None

\* fetchMetals, the metals.dev candidate: the try block under METALS_DEV_KEY.
fetchMetals_MetalsDev(r) ==
  IF r.kind = "ok"
    THEN Some([ gold     |-> Div(r.value.gold, TROY_OZ_TO_GRAMS),
                silver   |-> Div(r.value.silver, TROY_OZ_TO_GRAMS),
                platinum |-> Div(r.value.platinum, TROY_OZ_TO_GRAMS) ])
    ELSE None

\* fetchMetals_LastResort without the cached branch.
fetchMetals_LastResort_Defaults(cached) == DefaultMetals

\* fetchMetals, "Return cached or defaults": cached is what kvGet returned.
fetchMetals_LastResort(cached) ==
  IF cached # None THEN MetalsOf(cached[1]) ELSE DefaultMetals

\* fetchCurrencies_Frankfurter without the inversions: the provider's
\* USD-to-EUR and USD-to-GBP rates are returned as they came.
fetchCurrencies_Frankfurter_AsQuoted(r) ==
  IF r.kind = "ok"
    THEN Some([ILS |-> r.value.ILS, EUR |-> r.value.EUR, GBP |-> r.value.GBP])
    ELSE None

\* fetchCurrencies, the try block.
fetchCurrencies_Frankfurter(r) ==
  IF r.kind = "ok"
    THEN Some([ ILS |-> r.value.ILS,
                EUR |-> Div(Num(1), r.value.EUR),
                GBP |-> Div(Num(1), r.value.GBP) ])
    ELSE None

\* fetchCurrencies_Fallback without the defaults: with no snapshot cached the
\* three currencies are left undefined.
fetchCurrencies_Fallback_NoDefaults(cached) ==
  IF cached # None THEN cached[1].currencies
                   ELSE [ILS |-> Undefined, EUR |-> Undefined, GBP |-> Undefined]

\* fetchCurrencies, after the try block: cached is what kvGet returned.
fetchCurrencies_Fallback(cached) ==
  IF cached # None THEN cached[1].currencies ELSE DefaultCurrencies

(***************************************************************************)
(* src/api/cron/update-prices.ts: the provider chain of the scheduled      *)
(* handler.  A function that throws returns None here; its caller's catch  *)
(* is the ELSE branch of the action that uses it.                          *)
(***************************************************************************)
fetchFromGoldApi(goldRes, silverRes, platRes) ==
  IF \E r \in {goldRes, silverRes, platRes} : r.kind = "rejected" THEN None
  ELSE IF ~ResOk(goldRes) THEN None
  ELSE IF ~ResOk(silverRes) THEN None
  ELSE IF ~ResOk(platRes) THEN None
  ELSE IF \E r \in {goldRes, silverRes, platRes} : r.kind = "badjson" THEN None
  ELSE Some([ gold     |-> Div(goldRes.value, TROY_OZ_TO_GRAMS),
              silver   |-> Div(silverRes.value, TROY_OZ_TO_GRAMS),
              platinum |-> Div(platRes.value, TROY_OZ_TO_GRAMS) ])

\* fetchFromMetalsDev without the division: the per-ounce quotes are returned
\* as per-gram prices.
fetchFromMetalsDev_PerOunce(response) ==
  IF response.kind = "ok"
    THEN Some([ gold     |-> response.value.gold,
                silver   |-> response.value.silver,
                platinum |-> response.value.platinum ])
    ELSE None

fetchFromMetalsDev(response) ==
  IF response.kind = "rejected" THEN None
  ELSE IF ~ResOk(response) THEN None
  ELSE IF response.kind = "badjson" THEN None
  ELSE Some([ gold     |-> Div(response.value.gold, TROY_OZ_TO_GRAMS),
              silver   |-> Div(response.value.silver, TROY_OZ_TO_GRAMS),
              platinum |-> Div(response.value.platinum, TROY_OZ_TO_GRAMS) ])

\* fetchMetalPrices, "Last resort: return cached or defaults".
fetchMetalPrices_LastResort(cached) ==
  IF cached # None THEN MetalsOf(cached[1]) ELSE DefaultMetals

\* fetchCurrencyRates, the try block.
fetchCurrencyRates_Frankfurter(response) ==
  IF response.kind = "rejected" THEN None
  ELSE IF ~ResOk(response) THEN None
  ELSE IF response.kind = "badjson" THEN None
  ELSE Some([ ILS |-> response.value.ILS,
              EUR |-> Div(Num(1), response.value.EUR),
              GBP |-> Div(Num(1), response.value.GBP) ])

\* fetchCurrencyRates_Fallback without the cache: the defaults, whatever is
\* cached.
fetchCurrencyRates_Fallback_Defaults(cached) == DefaultCurrencies

\* fetchCurrencyRates, the catch block: cached is what kvGet returned.
fetchCurrencyRates_Fallback(cached) ==
  IF cached # None THEN cached[1].currencies ELSE DefaultCurrencies

(***************************************************************************)
(* State.                                                                  *)
(***************************************************************************)
VARIABLES
  env,    \* process.env: GOLDAPI_KEY, METALS_DEV_KEY ("" = unset)
  now,    \* Date.now()
  store,  \* the value under the key "prices": None, or Some(snapshot)
  inv,    \* the invocations in flight
  started, \* how many requests have arrived
  odd,    \* how many provider bodies were not of the documented form
  lim,    \* what the behaviour is bounded to: whether invocations may run
          \* at the same time, and how many bodies may be odd
  out     \* what a caller saw of the last step: the request headers the
          \* step read and the response it sent, with what the invocation
          \* had done; None when the step read no header and sent nothing

vars == <<env, now, store, inv, started, odd, lim, out>>

Inv == 1 .. NumInv

Environments == [GOLDAPI_KEY : {"", "gk"}, METALS_DEV_KEY : {"", "mk"}]

\* process.env.CRON_SECRET, which the scheduled handler reads at each request.
CronSecrets == {"", "s3cret"}

\* req.headers.authorization of a scheduled request: None when missing.
AuthorizationHeaders ==
  {None, Some("Bearer s3cret"), Some("Bearer guess"), Some("s3cret")}

\* The clock advances by the staleness threshold or by a millisecond more,
\* MaxTicks times at most.
Ticks(t) == t \div STALE_THRESHOLD_MS
TickSteps == {STALE_THRESHOLD_MS, STALE_THRESHOLD_MS + 1}

\* req.headers["if-modified-since"] of an on-demand request: None when
\* missing, else its text: empty, no date at all, or the text of an instant.
HeaderText(form, iso) == [form |-> form, iso |-> iso]
HeaderInstants == {0, STALE_THRESHOLD_MS}
IfModifiedSinceHeaders ==
  {None, Some(HeaderText("empty", <<>>)), Some(HeaderText("garbage", <<>>))}
    \cup {Some(HeaderText("date", ToISOString(t))) : t \in HeaderInstants}

\* new Date(text).getTime(): NaN (here -1) for a text that is no date.
NaNTime == 0 - 1
DateOf(text) == IF text.form = "date" THEN GetTime(text.iso) ELSE NaNTime

\* TimeGE with > for >=: a client date equal to the server's is "modified".
TimeGT(a, b) == a # NaNTime /\ b # NaNTime /\ a > b

\* a >= b on the results of getTime(): false when either is NaN.
TimeGE(a, b) == a # NaNTime /\ b # NaNTime /\ a >= b

\* An invocation that has not started.  Besides the handler's variables
\* (cached, fresh), the results of its two chains (metals, currencies) and
\* what the kvGet of each chain's fallback returned (mcached, ccached), it
\* keeps the outcome of the store call whose reply is on its way (kv) and a
\* record of what it did: the providers it called (calls), its calls to the
\* store and how many of them threw (kvReads, kvWrites, kvErrors), the
\* attempts of its two chains (mlog, clog), whether another invocation wrote
\* the store after this one stamped its snapshot (raced), and whether one
\* wrote it between the reads of this one's two fallbacks (crossed).
Idle ==
  [ kind |-> "none", pc |-> "idle", kv |-> "none",
    cached |-> None, mpc |-> "off", cpc |-> "off",
    metals |-> None, currencies |-> None, fresh |-> None,
    mcached |-> None, ccached |-> None,
    calls |-> {}, kvReads |-> 0, kvWrites |-> 0, kvErrors |-> 0,
    mlog |-> <<>>, clog |-> <<>>, raced |-> FALSE, crossed |-> FALSE ]

\* One attempt of a candidate of a chain: which one, and whether every
\* response it needs was successful and readable.
Attempt(cand, ok) == [cand |-> cand, ok |-> ok]

\* The behaviours explored: invocations that overlap, the providers keeping
\* to the documented form of their bodies; and invocations one after the
\* other, MaxOdd bodies at most being of another form.
Scenarios == {[overlap |-> TRUE, odd |-> 0], [overlap |-> FALSE, odd |-> MaxOdd]}

Init ==
  /\ env \in Environments
  /\ lim \in Scenarios
  /\ now = 0
  /\ store = None
  /\ inv = [i \in Inv |-> Idle]
  /\ started = 0
  /\ odd = 0
  /\ out = None

(***************************************************************************)
(* src/lib/kv.ts                                                           *)
(***************************************************************************)
\* What a kvGet may come to: the store serves it, or the call throws (the
\* backing service is unreachable).
KvOutcomes == {"ok", "error"}

\* What a kvSet may come to: the store applies it and the reply arrives; the
\* command never reaches the store; the store applies it and the reply is
\* lost, so that the call throws all the same.
KvSetOutcomes == {"ok", "error", "lost"}

\* kvGet("prices"): kv.get returns the parsed value, or null.
kvGet == store

\* kvSet resolving without having stored anything.
kvSet_Dropped(value) == None

\* kvSet("prices", value): the store keeps the value's JSON text.
kvSet(value) == Some(Json(value))

(***************************************************************************)
(* Plumbing shared by the two handlers.                                    *)
(***************************************************************************)
\* A request arrives, MaxStarted of them at most.  A slot is taken in order:
\* the invocations are interchangeable.
CanStart(i) ==
  /\ started < MaxStarted
  /\ started' = started + 1
  /\ inv[i].pc = "idle"
  /\ \A j \in Inv : j < i => inv[j].pc # "idle"
  /\ lim.overlap \/ \A j \in Inv : inv[j].pc = "idle"

\* res.status(status) with the body, header and error message sent.
Reply(status, body, lastModified, error) ==
  [status |-> status, body |-> body, lastModified |-> lastModified, error |-> error]

\* No response yet (status 0): the handler runs on.
Running == Reply(0, None, None, None)

\* A chain is over: it returned, or it threw.
Over(pc) == pc \in {"done", "failed"}

\* One fallback of the refresh has read the cache and the other chain has
\* not come to its result.
BetweenReads(r) ==
  /\ r.pc = "refresh"
  /\ \/ ~Over(r.mpc) /\ r.cpc = "done" /\ r.clog[Len(r.clog)].cand = "kv"
     \/ ~Over(r.cpc) /\ r.mpc = "done" /\ r.mlog[Len(r.mlog)].cand = "kv"

\* The store applied the kvSet of invocation i, whose record becomes w:
\* every other invocation that holds a stamped snapshot has been overtaken,
\* and every other one that is between the reads of its fallbacks has been
\* crossed.
AfterWrite(i, w) ==
  [j \in Inv |-> IF j = i THEN w
                 ELSE IF inv[j].pc = "write" THEN [inv[j] EXCEPT !.raced = TRUE]
                 ELSE IF BetweenReads(inv[j]) THEN [inv[j] EXCEPT !.crossed = TRUE]
                 ELSE inv[j]]

\* The response of invocation record r, with the request header the handler
\* read (auth or ifModified), what the handler's first kvGet returned (read),
\* and what the invocation did.
Sent(r, reply, secret, auth, ifModified, read) ==
  Some([ kind |-> r.kind, status |-> reply.status, body |-> reply.body,
         lastModified |-> reply.lastModified, error |-> reply.error,
         secret |-> secret, auth |-> auth, ifModified |-> ifModified, read |-> read,
         cached |-> r.cached, fresh |-> r.fresh,
         mcached |-> r.mcached, ccached |-> r.ccached,
         calls |-> r.calls, kvReads |-> r.kvReads, kvWrites |-> r.kvWrites,
         kvErrors |-> r.kvErrors,
         mlog |-> r.mlog, clog |-> r.clog, raced |-> r.raced, at |-> now ])

(***************************************************************************)
(* The two chains.  A chain is suspended at each await: on the responses   *)
(* of a provider, or on the reply of its kvGet.                            *)
(***************************************************************************)
\* The metal chain without a catch around its candidates: the failure of the
\* last one is thrown to Promise.all.
MetalsChainThrows(r) == [r EXCEPT !.mpc = "failed"]

\* The metal chain at its last resort: kvGet is called.
MetalsAtLastResort(r) == [r EXCEPT !.mpc = "kv", !.kvReads = @ + 1]

\* The metal chain at the metals.dev candidate: the request is sent.  Without
\* METALS_DEV_KEY the candidate is passed over, no request made.
MetalsAtMetalsDev(r) ==
  IF env.METALS_DEV_KEY = ""
    THEN MetalsAtLastResort(r)
    ELSE [r EXCEPT !.mpc = "metals.dev", !.calls = @ \cup {"metals.dev"}]

\* The metal chain at the goldapi.io candidate: the three requests are sent.
\* Without GOLDAPI_KEY it is passed over, no request made.
MetalsAtGoldApi(r) ==
  IF env.GOLDAPI_KEY = ""
    THEN MetalsAtMetalsDev(r)
    ELSE [r EXCEPT !.mpc = "goldapi", !.calls = @ \cup {"goldapi"}]

\* The currency chain at its provider: the request is sent.
CurrenciesAtFrankfurter(r) ==
  [r EXCEPT !.cpc = "frankfurter", !.calls = @ \cup {"frankfurter"}]

\* Promise.all([metals chain, currency chain]): both chains start in the
\* same synchronous stretch and run to their first await.
StartChains(r) == CurrenciesAtFrankfurter(MetalsAtGoldApi([r EXCEPT !.pc = "refresh"]))

\* A body of a provider that is not of the documented form: a quote is
\* missing, null or zero.
OddNumber(x) == ~IsNumber(x) \/ x[1] = 0
OddBody(b) == \E f \in DOMAIN b : OddNumber(b[f])

\* What a candidate can come to, over every response of its provider: the
\* candidate's result (res), whether every response was successful and
\* readable (ok), and how many of the bodies it took its values from were
\* not of the documented form (odd).
Outcome(res, ok, n) == [res |-> res, ok |-> ok, odd |-> n]

GoldApiResponses ==
  Responses(XAU_Quotes) \X Responses(XAG_Quotes) \X Responses(XPT_Quotes)

OddQuotes(t) == Cardinality({k \in 1 .. 3 : OddNumber(t[k].value)})

GoldApiOutcomes ==
  [ prices |-> { LET res == fetchMetals_GoldApi(t[1], t[2], t[3])
                 IN  Outcome(res, \A k \in 1 .. 3 : t[k].kind = "ok",
                             IF res = None THEN 0 ELSE OddQuotes(t))
                 : t \in GoldApiResponses },
    cron   |-> { LET res == fetchFromGoldApi(t[1], t[2], t[3])
                 IN  Outcome(res, \A k \in 1 .. 3 : t[k].kind = "ok",
                             IF res = None THEN 0 ELSE OddQuotes(t))
                 : t \in GoldApiResponses } ]

MetalsDevOutcomes ==
  [ prices |-> { LET res == fetchMetals_MetalsDev(m)
                 IN  Outcome(res, m.kind = "ok",
                             IF res # None /\ OddBody(m.value) THEN 1 ELSE 0)
                 : m \in Responses(MetalsDevQuotes) },
    cron   |-> { LET res == fetchFromMetalsDev(m)
                 IN  Outcome(res, m.kind = "ok",
                             IF res # None /\ OddBody(m.value) THEN 1 ELSE 0)
                 : m \in Responses(MetalsDevQuotes) } ]

FrankfurterOutcomes ==
  [ prices |-> { LET res == fetchCurrencies_Frankfurter(f)
                 IN  Outcome(res, f.kind = "ok",
                             IF res # None /\ OddBody(f.value) THEN 1 ELSE 0)
                 : f \in Responses(FrankfurterRates) },
    cron   |-> { LET res == fetchCurrencyRates_Frankfurter(f)
                 IN  Outcome(res, f.kind = "ok",
                             IF res # None /\ OddBody(f.value) THEN 1 ELSE 0)
                 : f \in Responses(FrankfurterRates) } ]

\* The outcomes a candidate may still come to, within the number of odd
\* bodies the behaviour is bounded to.
Within(outcomes) == {o \in outcomes : odd + o.odd <= lim.odd}

\* Promise.all resolves when both chains have returned.
ChainsDone(r) == r.mpc = "done" /\ r.cpc = "done"

\* The handler is in its refresh, or it has answered while a chain of its
\* refresh was still suspended (Promise.all rejected on the other one): the
\* chain runs on to its end, its result is dropped.
InRefresh(r) == r.pc \in {"refresh", "answered"}

\* A chain step that threw nothing leaves the record l; an invocation that
\* has answered is over once both its chains are.
Settled(i, l) ==
  inv' = [inv EXCEPT ![i] =
            IF l.pc = "answered" /\ Over(l.mpc) /\ Over(l.cpc) THEN Idle ELSE l]

\* fetchFreshPrices stamping the epoch, not the clock.
fetchFreshPrices_Epoch(metals, currencies, t) == PriceData(metals, currencies, ToISOString(0))

\* src/api/prices.ts, fetchFreshPrices: { ...metals, currencies, updatedAt }.
fetchFreshPrices(metals, currencies, t) == PriceData(metals, currencies, ToISOString(t))

\* priceData with the currencies left out.
priceData_MetalsOnly(metals, currencies, t) ==
  PriceData(metals, [ILS |-> Undefined, EUR |-> Undefined, GBP |-> Undefined],
            ToISOString(t))

\* src/api/cron/update-prices.ts, handler: priceData.
priceData(metals, currencies, t) == PriceData(metals, currencies, ToISOString(t))

\* Stamped without the handler running on: it holds the snapshot and stays
\* where it was.
Stamped_Suspended(r, snapshot) == [r EXCEPT !.fresh = Some(snapshot)]

\* Promise.all has resolved: the handler runs on, without an await, to its
\* kvSet call, and stamps the snapshot with the clock of that moment.
Stamped(r, snapshot) ==
  [r EXCEPT !.pc = "write", !.kvWrites = @ + 1, !.fresh = Some(snapshot)]

\* The store serves the kvSet of invocation i, or the call fails: the reply
\* is on its way to the handler.
StoreSet(i) ==
  \E w \in KvSetOutcomes :
    LET r == [inv[i] EXCEPT !.pc = "written", !.kv = IF w = "ok" THEN "ok" ELSE "error"] IN
    IF w = "error"
      THEN /\ inv' = [inv EXCEPT ![i] = r]
           /\ UNCHANGED store
      ELSE /\ store' = kvSet(r.fresh[1])
           /\ inv' = AfterWrite(i, r)

(***************************************************************************)
(* src/api/prices.ts: handler                                              *)
(***************************************************************************)
\* isStale with >= for >: a snapshot of exactly five minutes is stale.
IsStale_AtThreshold(cached, t) ==
  cached = None \/ t - GetTime(cached[1].updatedAt) >= STALE_THRESHOLD_MS

\* isStale
IsStale(cached, t) ==
  cached = None \/ t - GetTime(cached[1].updatedAt) > STALE_THRESHOLD_MS

\* PricesRespond without the absolute fallback: with no snapshot in hand the
\* handler answers with its error.
PricesRespond_NoFallback(cached, ifModified, t) ==
  IF cached # None
    THEN IF /\ ifModified # None
            /\ ifModified[1].form # "empty"
            /\ TimeGE(DateOf(ifModified[1]), GetTime(cached[1].updatedAt))
           THEN Reply(304, None, None, None)
           ELSE Reply(200, Some(Json(cached[1])), Some(cached[1].updatedAt), None)
    ELSE Reply(500, None, None, Some("Failed to fetch prices"))

\* The handler from "if (cached)" on: the response for the snapshot it holds.
PricesRespond(cached, ifModified, t) ==
  IF cached # None
    THEN IF /\ ifModified # None
            /\ ifModified[1].form # "empty"
            /\ TimeGE(DateOf(ifModified[1]), GetTime(cached[1].updatedAt))
           THEN Reply(304, None, None, None)
           ELSE Reply(200, Some(Json(cached[1])), Some(cached[1].updatedAt), None)
    ELSE Reply(200,
               Some(Json(PriceData(DefaultMetals, DefaultCurrencies, ToISOString(t)))),
               None, None)

\* The catch block taking a failure for an empty cache: it answers as the
\* absolute fallback does.
PricesError_AsAbsent == PricesRespond(None, None, 0)

\* The catch block.
PricesError == Reply(500, None, None, Some("Failed to fetch prices"))

\* An OPTIONS request: 200, no body, nothing else done.
PricesOptions(i) ==
  /\ CanStart(i)
  /\ out' = Sent([inv[i] EXCEPT !.kind = "prices"], Reply(200, None, None, None),
                 "", None, None, None)
  /\ UNCHANGED <<env, now, store, inv, odd, lim>>

\* Any other request: the handler calls kvGet and is suspended.
PricesGet(i) ==
  /\ CanStart(i)
  /\ inv' = [inv EXCEPT ![i] = [@ EXCEPT !.kind = "prices", !.pc = "get", !.kvReads = 1]]
  /\ out' = None
  /\ UNCHANGED <<env, now, store, odd, lim>>

\* The store serves the handler's kvGet, or the call fails: the reply, with
\* what the store holds at this moment, is on its way to the handler.
PricesRead(i) ==
  LET r == inv[i] IN
  /\ r.kind = "prices" /\ r.pc = "get"
  /\ \E kv \in KvOutcomes :
       inv' = [inv EXCEPT ![i] =
                 [r EXCEPT !.pc = "got", !.kv = kv,
                           !.cached = IF kv = "ok" THEN kvGet ELSE None]]
  /\ out' = None
  /\ UNCHANGED <<env, now, store, started, odd, lim>>

\* The reply of kvGet is back: the catch block if it threw; else isStale on
\* the clock of this moment and either the response (fresh cache) or the
\* refresh, up to the first await of each chain.
PricesGot(i) ==
  LET r == inv[i] IN
  /\ r.kind = "prices" /\ r.pc = "got"
  /\ IF r.kv = "error"
       THEN /\ out' = Sent([r EXCEPT !.kvErrors = 1], PricesError, "", None, None, None)
            /\ inv' = [inv EXCEPT ![i] = Idle]
       ELSE IF IsStale(r.cached, now)
         THEN /\ inv' = [inv EXCEPT ![i] = StartChains([r EXCEPT !.kv = "none"])]
              /\ out' = None
         ELSE /\ \E h \in IfModifiedSinceHeaders :
                   out' = Sent(r, PricesRespond(r.cached, h, now), "", None, h, r.cached)
              /\ inv' = [inv EXCEPT ![i] = Idle]
  /\ UNCHANGED <<env, now, store, started, odd, lim>>

\* Both chains have returned: fetchFreshPrices returns the stamped snapshot
\* and the handler calls kvSet.
PricesJoin(i) ==
  LET r == inv[i] IN
  /\ r.kind = "prices" /\ r.pc = "refresh" /\ ChainsDone(r)
  /\ inv' = [inv EXCEPT ![i] =
               Stamped(r, fetchFreshPrices(r.metals[1], r.currencies[1], now))]
  /\ out' = None
  /\ UNCHANGED <<env, now, store, started, odd, lim>>

\* The kvSet of the on-demand handler reaches the store, or fails.
PricesWrite(i) ==
  /\ inv[i].kind = "prices" /\ inv[i].pc = "write"
  /\ StoreSet(i)
  /\ out' = None
  /\ UNCHANGED <<env, now, started, odd, lim>>

\* The reply of kvSet is back: cached = fresh and the response from it, or
\* the catch block if the call threw.
PricesWritten(i) ==
  LET r == inv[i] IN
  /\ r.kind = "prices" /\ r.pc = "written"
  /\ IF r.kv = "error"
       THEN out' = Sent([r EXCEPT !.kvErrors = 1], PricesError, "", None, None, r.cached)
       ELSE \E h \in IfModifiedSinceHeaders :
              out' = Sent([r EXCEPT !.cached = r.fresh],
                          PricesRespond(r.fresh, h, now), "", None, h, r.cached)
  /\ inv' = [inv EXCEPT ![i] = Idle]
  /\ UNCHANGED <<env, now, store, started, odd, lim>>

(***************************************************************************)
(* src/api/cron/update-prices.ts: handler                                  *)
(***************************************************************************)
\* Unauthorized without the test that a secret is configured.
Unauthorized_Always(secret, authorization) ==
  authorization # Some("Bearer " \o secret)

\* process.env.CRON_SECRET && req.headers.authorization !== `Bearer ${...}`
Unauthorized(secret, authorization) ==
  /\ secret # ""
  /\ authorization # Some("Bearer " \o secret)

\* The catch block: 500 with the error's message.
CronError == Reply(500, None, None, Some("kv"))

\* The request arrives: 401, or the refresh, up to the first await of each
\* chain.
CronBegin(i) ==
  /\ CanStart(i)
  /\ \E secret \in CronSecrets, a \in AuthorizationHeaders :
       LET r == [inv[i] EXCEPT !.kind = "cron"] IN
       IF Unauthorized(secret, a)
         THEN /\ out' = Sent(r, Reply(401, None, None, Some("Unauthorized")),
                             secret, a, None, None)
              /\ UNCHANGED inv
         ELSE /\ inv' = [inv EXCEPT ![i] = StartChains(r)]
              /\ out' = Sent(r, Running, secret, a, None, None)
  /\ UNCHANGED <<env, now, store, odd, lim>>

\* Both chains have returned: the handler builds priceData and calls kvSet.
CronJoin(i) ==
  LET r == inv[i] IN
  /\ r.kind = "cron" /\ r.pc = "refresh" /\ ChainsDone(r)
  /\ inv' = [inv EXCEPT ![i] =
               Stamped(r, priceData(r.metals[1], r.currencies[1], now))]
  /\ out' = None
  /\ UNCHANGED <<env, now, store, started, odd, lim>>

\* The kvSet of the scheduled handler reaches the store, or fails.
CronWrite(i) ==
  /\ inv[i].kind = "cron" /\ inv[i].pc = "write"
  /\ StoreSet(i)
  /\ out' = None
  /\ UNCHANGED <<env, now, started, odd, lim>>

\* The reply of kvSet is back: 200 with { ok: true, data: priceData }, or the
\* catch block if the call threw.
CronWritten(i) ==
  LET r == inv[i] IN
  /\ r.kind = "cron" /\ r.pc = "written"
  /\ IF r.kv = "error"
       THEN out' = Sent([r EXCEPT !.kvErrors = 1], CronError, "", None, None, None)
       ELSE out' = Sent(r, Reply(200, Some(Json(r.fresh[1])), None, None),
                        "", None, None, None)
  /\ inv' = [inv EXCEPT ![i] = Idle]
  /\ UNCHANGED <<env, now, store, started, odd, lim>>

(***************************************************************************)
(* The chains in flight, in the file of the handler that runs them.        *)
(***************************************************************************)
\* A chain's kvGet threw and the record is l.  If the handler still awaits
\* Promise.all, that rejects and, with no further await, fetchFreshPrices
\* returns null and the on-demand handler answers from what it read; the
\* scheduled handler answers from its catch block.  The other chain, if it
\* is not over, runs on.
ChainThrew(i, l) ==
  IF l.pc = "refresh"
    THEN /\ IF l.kind = "prices"
              THEN \E h \in IfModifiedSinceHeaders :
                     out' = Sent(l, PricesRespond(l.cached, h, now), "", None, h, l.cached)
              ELSE out' = Sent(l, CronError, "", None, None, None)
         /\ Settled(i, [l EXCEPT !.pc = "answered"])
    ELSE /\ out' = None
         /\ Settled(i, l)

\* The responses of goldapi.io are in: the chain returns their values, or
\* goes on to metals.dev.
MetalsGoldApi(i) ==
  LET r == inv[i] IN
  /\ InRefresh(r) /\ r.mpc = "goldapi"
  /\ \E o \in Within(GoldApiOutcomes[r.kind]) :
       LET l == [r EXCEPT !.mlog = Append(@, Attempt("goldapi", o.ok))] IN
       /\ Settled(i, IF o.res # None THEN [l EXCEPT !.mpc = "done", !.metals = o.res]
                                     ELSE MetalsAtMetalsDev(l))
       /\ odd' = odd + o.odd
  /\ out' = None
  /\ UNCHANGED <<env, now, store, started, lim>>

\* The response of metals.dev is in: the chain returns its values, or goes
\* on to its last resort.
MetalsMetalsDev(i) ==
  LET r == inv[i] IN
  /\ InRefresh(r) /\ r.mpc = "metals.dev"
  /\ \E o \in Within(MetalsDevOutcomes[r.kind]) :
       LET l == [r EXCEPT !.mlog = Append(@, Attempt("metals.dev", o.ok))] IN
       /\ Settled(i, IF o.res # None THEN [l EXCEPT !.mpc = "done", !.metals = o.res]
                                     ELSE MetalsAtLastResort(l))
       /\ odd' = odd + o.odd
  /\ out' = None
  /\ UNCHANGED <<env, now, store, started, lim>>

\* The last resort's kvGet settles: it threw, or the chain returns the
\* cached metals or the defaults.
MetalsLastResort(i) ==
  LET r == inv[i] IN
  /\ InRefresh(r) /\ r.mpc = "kv"
  /\ \E kv \in KvOutcomes :
       LET l == [r EXCEPT !.mlog = Append(@, Attempt("kv", kv = "ok"))] IN
       IF kv = "error"
         THEN ChainThrew(i, [l EXCEPT !.mpc = "failed", !.kvErrors = 1])
         ELSE /\ Settled(i, [l EXCEPT !.mpc = "done", !.mcached = kvGet, !.metals =
                               Some(IF r.kind = "prices"
                                      THEN fetchMetals_LastResort(kvGet)
                                      ELSE fetchMetalPrices_LastResort(kvGet))])
              /\ out' = None
  /\ UNCHANGED <<env, now, store, started, odd, lim>>

\* The response of frankfurter.dev is in: the chain returns its rates, or
\* goes on to its fallback and calls kvGet.
CurrenciesFrankfurter(i) ==
  LET r == inv[i] IN
  /\ InRefresh(r) /\ r.cpc = "frankfurter"
  /\ \E o \in Within(FrankfurterOutcomes[r.kind]) :
       LET l == [r EXCEPT !.clog = Append(@, Attempt("frankfurter", o.ok))] IN
       /\ Settled(i, IF o.res # None THEN [l EXCEPT !.cpc = "done", !.currencies = o.res]
                                     ELSE [l EXCEPT !.cpc = "kv", !.kvReads = @ + 1])
       /\ odd' = odd + o.odd
  /\ out' = None
  /\ UNCHANGED <<env, now, store, started, lim>>

\* The currency fallback's kvGet settles.
CurrenciesFallback(i) ==
  LET r == inv[i] IN
  /\ InRefresh(r) /\ r.cpc = "kv"
  /\ \E kv \in KvOutcomes :
       LET l == [r EXCEPT !.clog = Append(@, Attempt("kv", kv = "ok"))] IN
       IF kv = "error"
         THEN ChainThrew(i, [l EXCEPT !.cpc = "failed", !.kvErrors = 1])
         ELSE /\ Settled(i, [l EXCEPT !.cpc = "done", !.ccached = kvGet, !.currencies =
                               Some(IF r.kind = "prices"
                                      THEN fetchCurrencies_Fallback(kvGet)
                                      ELSE fetchCurrencyRates_Fallback(kvGet))])
              /\ out' = None
  /\ UNCHANGED <<env, now, store, started, odd, lim>>

(***************************************************************************)
(* The clock, and the system.                                              *)
(***************************************************************************)
Tick ==
  /\ Ticks(now) < MaxTicks
  /\ \E d \in TickSteps : now' = now + d
  /\ out' = None
  /\ UNCHANGED <<env, store, inv, started, odd, lim>>

Next ==
  \/ Tick
  \/ \E i \in Inv :
       \/ PricesOptions(i)
       \/ PricesGet(i)
       \/ PricesRead(i)
       \/ PricesGot(i)
       \/ PricesJoin(i)
       \/ PricesWrite(i)
       \/ PricesWritten(i)
       \/ CronBegin(i)
       \/ CronJoin(i)
       \/ CronWrite(i)
       \/ CronWritten(i)
       \/ MetalsGoldApi(i)
       \/ MetalsMetalsDev(i)
       \/ MetalsLastResort(i)
       \/ CurrenciesFrankfurter(i)
       \/ CurrenciesFallback(i)

Spec == Init /\ [][Next]_vars

\* The continuations of invocation i: what runs when the call it awaits (a
\* provider's fetch, kvGet, kvSet) has settled.
Resume(i) ==
  \/ PricesRead(i) \/ PricesGot(i) \/ PricesJoin(i) \/ PricesWrite(i) \/ PricesWritten(i)
  \/ CronJoin(i) \/ CronWrite(i) \/ CronWritten(i)
  \/ MetalsGoldApi(i) \/ MetalsMetalsDev(i) \/ MetalsLastResort(i)
  \/ CurrenciesFrankfurter(i) \/ CurrenciesFallback(i)

\* The initial states in which invocations come one after the other.
SequentialInit == Init /\ ~lim.overlap

\* Every call an invocation awaits settles, and the runtime then runs the
\* continuation: an invocation that can take a step is not left waiting for
\* ever.  Nothing makes a request arrive or the clock advance.  No step of
\* an invocation waits for another invocation, so the behaviours taken are
\* those of invocations one after the other, with every form of body.
FairSpec ==
  /\ SequentialInit
  /\ [][Next]_vars
  /\ \A i \in Inv : WF_vars(Resume(i))

(***************************************************************************)
(* Properties.  The response record "out" is what a caller sees of a step: *)
(* the header the step read, the reply, and what the invocation had done.  *)
(***************************************************************************)
Last(log) == log[Len(log)]

\* C1: a scheduled request is answered 401 exactly when a secret is
\* configured and the Authorization header is not "Bearer <secret>" (a
\* missing header included); a request answered 401 called no provider, read
\* and wrote no cache entry, and leaves the store and every running
\* invocation as they were.  Without a secret no request is answered 401.
C1_RejectedBeforeAnyWork ==
  [][ (out' # None /\ out'[1].kind = "cron") =>
        LET o == out'[1] IN
        /\ (o.status = 401) <=> (o.secret # "" /\ o.auth # Some("Bearer " \o o.secret))
        /\ (o.status = 401) =>
             /\ o.calls = {} /\ o.kvReads = 0 /\ o.kvWrites = 0
             /\ o.error = Some("Unauthorized")
             /\ store' = store /\ inv' = inv ]_vars

\* A request without the header is rejected while the store holds a snapshot.
C1_Witness ==
  /\ out # None /\ out[1].kind = "cron" /\ out[1].status = 401
  /\ out[1].secret = "s3cret" /\ out[1].auth = None
  /\ store # None

\* C2: an on-demand invocation that read a snapshot of age at most five
\* minutes called no provider and wrote nothing, and answered from exactly
\* the snapshot it read; an invocation that refreshes read no entry or one
\* older than five minutes.
C2_FreshCacheUntouched ==
  /\ \A i \in Inv :
       (/\ inv[i].kind = "prices" /\ inv[i].cached # None
        /\ inv[i].pc \in {"refresh", "write", "written", "answered"})
         => now - GetTime(inv[i].cached[1].updatedAt) > 5 * 60 * 1000
  /\ (/\ out # None /\ out[1].kind = "prices" /\ out[1].read # None
      /\ out[1].at - GetTime(out[1].read[1].updatedAt) <= 5 * 60 * 1000)
       => LET o == out[1] IN
          /\ o.calls = {} /\ o.kvWrites = 0 /\ o.fresh = None
          /\ o.cached = o.read
          /\ o.status \in {200, 304}
          /\ (o.status = 200) =>
               /\ o.body = o.read
               /\ o.lastModified = Some(o.read[1].updatedAt)

\* A snapshot of exactly five minutes is served as it was read.
C2_Witness ==
  /\ out # None /\ out[1].kind = "prices" /\ out[1].read # None
  /\ out[1].at - GetTime(out[1].read[1].updatedAt) = 5 * 60 * 1000
  /\ out[1].status = 200 /\ out[1].body = out[1].read
  /\ out[1].calls = {}

\* C3, as claimed: no write replaces a snapshot with one whose updatedAt is
\* older, whatever the interleaving.
C3_WritesNeverGoBack ==
  [][ (store # None /\ store' # None)
        => GetTime(store'[1].updatedAt) >= GetTime(store[1].updatedAt) ]_vars

\* C3: a write stores the updatedAt its invocation stamped, which is never
\* ahead of the clock; it replaces a snapshot with an older one only if
\* another invocation wrote the key after this one stamped its snapshot.
\* The store changes in no other step.
C3_WritesGoBackOnlyWhenOvertaken ==
  [][ /\ store' # store =>
           \E i \in Inv : inv[i].pc = "write" /\ inv'[i].pc = "written"
      /\ \A i \in Inv :
        (/\ inv[i].pc = "write" /\ inv'[i].pc = "written"
         /\ inv'[i].kv = "ok" \/ store' # store)
          => /\ store' # None
             /\ store'[1].updatedAt = inv[i].fresh[1].updatedAt
             /\ GetTime(store'[1].updatedAt) <= now
             /\ (store # None /\ ~inv[i].raced)
                  => GetTime(store'[1].updatedAt) >= GetTime(store[1].updatedAt) ]_vars

\* An on-demand invocation nobody overtook replaced the snapshot it had read
\* with a newer one.
C3_Witness ==
  /\ out # None /\ out[1].kind = "prices" /\ out[1].status = 200
  /\ out[1].read # None /\ out[1].fresh # None /\ ~out[1].raced
  /\ store = Some(Json(out[1].fresh[1]))
  /\ GetTime(store[1].updatedAt) > GetTime(out[1].read[1].updatedAt)

\* Every candidate a chain tried was a provider, and it succeeded.
ProvidersSucceeded(log) ==
  /\ log # <<>>
  /\ \A k \in 1 .. Len(log) : log[k].ok /\ log[k].cand # "kv"

\* C4: an on-demand request without If-Modified-Since that read a snapshot
\* and refreshed it with every provider succeeding is answered 200 with a
\* snapshot whose updatedAt is later than that of the snapshot read.
C4_StaleReadReturnsNewer ==
  (/\ out # None /\ out[1].kind = "prices" /\ out[1].read # None
   /\ ProvidersSucceeded(out[1].mlog) /\ ProvidersSucceeded(out[1].clog)
   /\ out[1].ifModified = None)
    => /\ out[1].status = 200
       /\ out[1].body # None
       /\ GetTime(out[1].body[1].updatedAt) > GetTime(out[1].read[1].updatedAt)

\* C5: an on-demand invocation that reaches its response holding a snapshot
\* answers 304 without a body exactly when the request carries a date T with
\* T >= updatedAt; in every other case it answers 200 with the snapshot as
\* body and Last-Modified equal to the snapshot's updatedAt.
C5_ConditionalResponse ==
  (out # None /\ out[1].kind = "prices" /\ out[1].cached # None /\ out[1].status # 500)
    => LET o == out[1]
           u == o.cached[1].updatedAt
           h == o.ifModified
       IN  IF h # None /\ h[1].form = "date" /\ GetTime(h[1].iso) >= GetTime(u)
             THEN o.status = 304 /\ o.body = None /\ o.lastModified = None
             ELSE /\ o.status = 200
                  /\ o.body = Some(Json(o.cached[1]))
                  /\ o.lastModified = Some(u)

\* T equal to updatedAt, to the millisecond, is answered 304.
C5_Witness ==
  /\ out # None /\ out[1].kind = "prices" /\ out[1].cached # None
  /\ out[1].ifModified # None /\ out[1].ifModified[1].form = "date"
  /\ out[1].ifModified[1].iso = out[1].cached[1].updatedAt
  /\ out[1].status = 304

\* C6: an on-demand invocation that refreshed (it holds a freshly stamped
\* snapshot) never answers with an error.
C6_WriteFailureNotSurfaced ==
  (out # None /\ out[1].kind = "prices" /\ out[1].fresh # None) => out[1].status # 500

\* A quote per troy ounce as a price per gram, in JavaScript's arithmetic:
\* x / 31.1035 = 10000 x / 311035; undefined / 31.1035 is NaN and
\* null / 31.1035 is 0.
PerGramOf(x) ==
  IF x = Undefined THEN NaN
  ELSE IF x = Null THEN Num(0)
  ELSE Rat(x[1] * 10000, x[2] * 311035)
PrimaryMetals ==
  { [gold |-> PerGramOf(g), silver |-> PerGramOf(s), platinum |-> PerGramOf(p)]
      : g \in XAU_Quotes, s \in XAG_Quotes, p \in XPT_Quotes }
SecondaryMetals ==
  { [gold |-> PerGramOf(q.gold), silver |-> PerGramOf(q.silver),
     platinum |-> PerGramOf(q.platinum)] : q \in MetalsDevQuotes }

\* The three metals as the store gives them back: a NaN has become null.
Stored(metals) ==
  { [gold |-> IF m.gold = NaN THEN Null ELSE m.gold,
     silver |-> IF m.silver = NaN THEN Null ELSE m.silver,
     platinum |-> IF m.platinum = NaN THEN Null ELSE m.platinum] : m \in metals }

\* C7: once the three goldapi.io responses are successful and readable, the
\* metal chain is over with their values, each quote divided by 31.1035:
\* metals.dev is not called and the chain does not read the store.
C7_StopsAtPrimary ==
  \A i \in Inv :
    LET r == inv[i] IN
    (r.mlog # <<>> /\ r.mlog[1] = Attempt("goldapi", TRUE))
      => /\ Len(r.mlog) = 1
         /\ r.mpc = "done"
         /\ "metals.dev" \notin r.calls
         /\ r.mcached = None
         /\ r.kvReads <= (IF r.kind = "prices" THEN 2 ELSE 1)
         /\ r.metals # None /\ r.metals[1] \in PrimaryMetals

C7_Witness ==
  \E i \in Inv :
    /\ env.METALS_DEV_KEY # ""
    /\ inv[i].mlog = <<Attempt("goldapi", TRUE)>>
    /\ inv[i].pc = "write"
    /\ MetalsOf(inv[i].fresh[1]) \in PrimaryMetals

\* C8: a candidate whose responses were not all successful and readable
\* gives no value and the chain goes on to the next one (metals.dev if it
\* has a key, else the store); the three metals of a result are those of
\* goldapi.io, those of metals.dev, those of a stored snapshot or the
\* defaults, and the three metals of every snapshot stored are those of
\* goldapi.io, those of metals.dev or the defaults, all three from the same
\* one.
C8_AllOrNothing ==
  /\ store # None =>
       MetalsOf(store[1]) \in Stored(PrimaryMetals \cup SecondaryMetals \cup {DefaultMetals})
  /\ \A i \in Inv :
       LET r == inv[i] IN
       /\ r.metals # None =>
            /\ Last(r.mlog).ok
            /\ (Last(r.mlog).cand = "goldapi") => r.metals[1] \in PrimaryMetals
            /\ (Last(r.mlog).cand = "metals.dev") => r.metals[1] \in SecondaryMetals
            /\ (Last(r.mlog).cand = "kv") =>
                 r.metals[1] = IF r.mcached # None THEN MetalsOf(r.mcached[1])
                                                   ELSE DefaultMetals
       /\ r.mcached # None =>
            MetalsOf(r.mcached[1])
              \in Stored(PrimaryMetals \cup SecondaryMetals \cup {DefaultMetals})
       /\ \A k \in 1 .. Len(r.mlog) :
            ~r.mlog[k].ok =>
              /\ r.mlog[k].cand \in {"goldapi", "metals.dev", "kv"}
              /\ IF k < Len(r.mlog)
                   THEN r.mlog[k + 1].cand =
                          (IF r.mlog[k].cand = "goldapi" /\ env.METALS_DEV_KEY # ""
                             THEN "metals.dev" ELSE "kv")
                   ELSE /\ r.metals = None
                        /\ r.mpc = (IF r.mlog[k].cand = "kv" THEN "failed"
                                    ELSE IF r.mlog[k].cand = "goldapi" /\ env.METALS_DEV_KEY # ""
                                      THEN "metals.dev" ELSE "kv")

\* goldapi.io failed, metals.dev answered: the result is metals.dev's.
C8_Witness ==
  \E i \in Inv :
    /\ inv[i].mlog = <<Attempt("goldapi", FALSE), Attempt("metals.dev", TRUE)>>
    /\ inv[i].metals # None /\ inv[i].metals[1] \in SecondaryMetals

\* C9: without GOLDAPI_KEY no request goes to goldapi.io, without
\* METALS_DEV_KEY none goes to metals.dev; without GOLDAPI_KEY and with a
\* successful metals.dev response the metals are metals.dev's quotes, each
\* divided by 31.1035.
C9_NoKeyNoRequest ==
  /\ \A i \in Inv :
       LET r == inv[i] IN
       /\ (env.GOLDAPI_KEY = "") => "goldapi" \notin r.calls
       /\ (env.METALS_DEV_KEY = "") => "metals.dev" \notin r.calls
       /\ (env.GOLDAPI_KEY = "" /\ r.mlog # <<>> /\ r.mlog[1] = Attempt("metals.dev", TRUE))
            => r.metals # None /\ r.metals[1] \in SecondaryMetals
  /\ out # None =>
       /\ (env.GOLDAPI_KEY = "") => "goldapi" \notin out[1].calls
       /\ (env.METALS_DEV_KEY = "") => "metals.dev" \notin out[1].calls

C9_Witness ==
  \E i \in Inv :
    /\ env.GOLDAPI_KEY = "" /\ env.METALS_DEV_KEY # ""
    /\ inv[i].mlog = <<Attempt("metals.dev", TRUE)>>
    /\ inv[i].calls = {"metals.dev", "frankfurter"}
    /\ inv[i].metals # None
    /\ inv[i].metals[1] = [gold |-> Rat(31000000, 311035), silver |-> Rat(320000, 311035),
                           platinum |-> Rat(9900000, 311035)]

\* C10: when no provider gave the metals and the store holds a snapshot at
\* the last resort's read, the metals of the chain, of the snapshot the
\* refresh stamps and of the snapshot its write leaves in the store are that
\* snapshot's gold, silver and platinum.
C10_CachedMetalsKept ==
  [][ \A i \in Inv :
        /\ (inv[i].mpc = "kv" /\ inv'[i].mpc = "done" /\ store # None)
             => /\ \A k \in 1 .. Len(inv[i].mlog) : ~inv[i].mlog[k].ok
                /\ inv'[i].mcached = store
                /\ inv'[i].metals = Some(MetalsOf(store[1]))
        /\ (inv[i].fresh # None) => MetalsOf(inv[i].fresh[1]) = inv[i].metals[1]
        /\ (/\ inv[i].pc = "write" /\ store' # store
            /\ inv[i].mlog # <<>> /\ Last(inv[i].mlog).cand = "kv" /\ inv[i].mcached # None)
             => /\ MetalsOf(inv[i].fresh[1]) = MetalsOf(inv[i].mcached[1])
                /\ MetalsOf(store'[1]) = MetalsOf(inv[i].mcached[1]) ]_vars

\* A refresh about to write metals it took from the store, not the defaults.
C10_Witness ==
  \E i \in Inv :
    /\ inv[i].pc = "write"
    /\ Last(inv[i].mlog) = Attempt("kv", TRUE)
    /\ inv[i].mcached # None
    /\ inv[i].metals[1] # DefaultMetals
    /\ MetalsOf(inv[i].fresh[1]) = MetalsOf(inv[i].mcached[1])

\* A chain got its result from the fallback's kvGet.
FellBack(log) == log # <<>> /\ Last(log) = Attempt("kv", TRUE)

\* The record r of an invocation shows a total failure on an empty cache: no
\* snapshot read by the handler, none by either fallback, no provider result.
TotalFailure(r) ==
  /\ r.cached = None
  /\ FellBack(r.mlog) /\ r.mcached = None
  /\ FellBack(r.clog) /\ r.ccached = None

\* C11 as stated: an on-demand invocation whose providers all failed or have
\* no key, whose three reads of the cache found no snapshot and none of whose
\* cache calls threw, answers 200 with the defaults.
C11_TotalFailureIs200 ==
  (/\ out # None /\ out[1].kind = "prices" /\ out[1].kvErrors = 0
   /\ out[1].read = None
   /\ FellBack(out[1].mlog) /\ out[1].mcached = None
   /\ FellBack(out[1].clog) /\ out[1].ccached = None)
    => /\ out[1].status = 200
       /\ out[1].body # None
       /\ MetalsOf(out[1].body[1]) = DefaultMetals
       /\ out[1].body[1].currencies = DefaultCurrencies

\* C11: an on-demand invocation whose providers all failed or have no key and
\* whose three reads of the cache found no snapshot stamps the defaults with
\* the clock of that moment; with no cache call throwing it answers without
\* error: 304 without a body if the request carries an If-Modified-Since
\* date not before the stamp, and else 200 with exactly that snapshot (gold
\* 92.5, silver 1.05, platinum 31.2, ILS 3.65, EUR 1.08, GBP 1.27).
C11_TotalFailureGivesDefaults ==
  [][ /\ \A i \in Inv :
           (/\ inv[i].kind = "prices" /\ inv[i].pc = "refresh"
            /\ inv'[i].pc = "write" /\ TotalFailure(inv[i]))
             => inv'[i].fresh =
                  Some(PriceData(DefaultMetals, DefaultCurrencies, ToISOString(now)))
      /\ (/\ out' # None /\ out'[1].kind = "prices" /\ out'[1].kvErrors = 0
          /\ out'[1].read = None
          /\ FellBack(out'[1].mlog) /\ out'[1].mcached = None
          /\ FellBack(out'[1].clog) /\ out'[1].ccached = None)
           => LET o == out'[1]
                  u == o.fresh[1].updatedAt
                  h == o.ifModified
              IN  /\ o.fresh # None /\ o.kvWrites = 1
                  /\ GetTime(u) <= o.at
                  /\ o.error = None
                  /\ IF h # None /\ h[1].form = "date" /\ GetTime(h[1].iso) >= GetTime(u)
                       THEN o.status = 304 /\ o.body = None
                       ELSE /\ o.status = 200
                            /\ o.lastModified = Some(u)
                            /\ o.body = Some([ gold |-> Rat(925, 10), silver |-> Rat(105, 100),
                                               platinum |-> Rat(312, 10),
                                               currencies |-> [ ILS |-> Rat(365, 100),
                                                                EUR |-> Rat(108, 100),
                                                                GBP |-> Rat(127, 100) ],
                                               updatedAt |-> u ]) ]_vars

\* Both providers of metals and the currency provider were called and failed,
\* the cache was empty, and the answer is 200 with the defaults.
C11_Witness ==
  /\ out # None /\ out[1].kind = "prices" /\ out[1].status = 200
  /\ out[1].read = None /\ out[1].fresh # None
  /\ out[1].calls = {"goldapi", "metals.dev", "frankfurter"}
  /\ FellBack(out[1].mlog) /\ out[1].mcached = None
  /\ FellBack(out[1].clog) /\ out[1].ccached = None
  /\ MetalsOf(out[1].body[1]) = DefaultMetals
  /\ out[1].body[1].currencies = DefaultCurrencies

\* C12: whatever the providers answer, a chain throws only when its own
\* kvGet threw, never on an error of a provider; an invocation none of whose
\* cache calls threw answers 200 or 304 when it is on demand and 200 when it
\* is scheduled and authorized, never 500.
C12_ProviderFailuresNotSurfaced ==
  /\ \A i \in Inv :
       LET r == inv[i] IN
       /\ (r.mpc = "failed") => r.mlog # <<>> /\ Last(r.mlog) = Attempt("kv", FALSE)
       /\ (r.cpc = "failed") => r.clog # <<>> /\ Last(r.clog) = Attempt("kv", FALSE)
       /\ (r.pc \in {"refresh", "write"}) => r.kvErrors = 0
       /\ (r.pc = "answered") => r.kvErrors = 1
  /\ (out # None /\ out[1].status # 0 /\ out[1].kvErrors = 0)
       => IF out[1].kind = "prices"
            THEN out[1].status \in {200, 304}
            ELSE out[1].status \in {200, 401}
  /\ (out # None /\ out[1].status = 500) => out[1].kvErrors = 1

\* A scheduled invocation whose three providers all failed answers 200.
C12_Witness ==
  /\ out # None /\ out[1].kind = "cron" /\ out[1].status = 200
  /\ out[1].calls = {"goldapi", "metals.dev", "frankfurter"}
  /\ out[1].mlog = <<Attempt("goldapi", FALSE), Attempt("metals.dev", FALSE),
                     Attempt("kv", TRUE)>>
  /\ out[1].clog = <<Attempt("frankfurter", FALSE), Attempt("kv", TRUE)>>
  /\ out[1].kvErrors = 0

\* Every field of a snapshot is present in its JSON text (a field whose
\* value is undefined is left out of the text).
Complete(snap) ==
  /\ snap.gold # Undefined /\ snap.silver # Undefined /\ snap.platinum # Undefined
  /\ snap.currencies.ILS # Undefined /\ snap.currencies.EUR # Undefined
  /\ snap.currencies.GBP # Undefined
  /\ GetTime(snap.updatedAt) >= 0

\* C13: a scheduled request that is not rejected starts the refresh whatever
\* the store holds; when its chains have returned it stamps their results
\* with the clock of that moment, a complete snapshot; its one kvSet leaves
\* that snapshot in the store, and with no cache call throwing it answers
\* 200 with that same snapshot, every field present.
C13_ScheduledWritesOnce ==
  [][ /\ (out' # None /\ out'[1].kind = "cron" /\ out'[1].status = 0)
           => \E i \in Inv :
                /\ inv[i].pc = "idle"
                /\ inv'[i].kind = "cron" /\ inv'[i].pc = "refresh"
                /\ inv'[i].kvWrites = 0
      /\ \A i \in Inv :
           (inv[i].kind = "cron" /\ inv[i].pc = "refresh" /\ inv'[i].pc = "write")
             => /\ inv'[i].fresh = Some([ gold       |-> inv[i].metals[1].gold,
                                          silver     |-> inv[i].metals[1].silver,
                                          platinum   |-> inv[i].metals[1].platinum,
                                          currencies |-> inv[i].currencies[1],
                                          updatedAt  |-> ToISOString(now) ])
                /\ inv'[i].kvWrites = 1
      /\ \A i \in Inv :
           (/\ inv[i].kind = "cron" /\ inv[i].pc = "write" /\ inv'[i].pc = "written"
            /\ inv'[i].kv = "ok")
             => /\ store' = Some(Json(inv[i].fresh[1]))
                /\ Complete(store'[1])
      /\ (out' # None /\ out'[1].kind = "cron" /\ out'[1].status \notin {0, 401})
           => LET o == out'[1] IN
              /\ (o.status = 200) <=> (o.kvErrors = 0)
              /\ (o.status = 200)
                   => /\ o.kvWrites = 1
                      /\ o.fresh # None
                      /\ o.body = Some(Json(o.fresh[1]))
                      /\ Complete(o.body[1]) ]_vars

\* The kvGet of a chain's fallback threw: the refresh returns no data.
RefreshFailed(o) ==
  \/ o.mlog # <<>> /\ Last(o.mlog) = Attempt("kv", FALSE)
  \/ o.clog # <<>> /\ Last(o.clog) = Attempt("kv", FALSE)

\* C14: an on-demand invocation whose refresh returned no data calls kvSet
\* not once and leaves the store as it is, in the step of its response and
\* in what is left of its chains after it; it answers from the snapshot it
\* read, if it read one (200 with that snapshot and its old updatedAt as
\* Last-Modified, or 304 against it), and else 200 with the defaults stamped
\* with the clock at the response.
C14_FailedRefreshKeepsCache ==
  [][ /\ \A i \in Inv :
           (inv[i].pc = "answered")
             => /\ inv[i].kvWrites = 0 /\ inv[i].fresh = None
                /\ inv'[i].pc \in {"answered", "idle"}
                /\ inv'[i].pc = "answered" => inv'[i].kvWrites = 0
                /\ inv'[i] # inv[i] => store' = store /\ out' = None
      /\ (out' # None /\ out'[1].kind = "prices" /\ RefreshFailed(out'[1]))
        => LET o == out'[1]
               h == o.ifModified
           IN  /\ store' = store
               /\ o.kvWrites = 0 /\ o.fresh = None
               /\ o.cached = o.read
               /\ IF o.read # None
                    THEN IF /\ h # None /\ h[1].form = "date"
                            /\ GetTime(h[1].iso) >= GetTime(o.read[1].updatedAt)
                           THEN o.status = 304 /\ o.body = None
                           ELSE /\ o.status = 200
                                /\ o.body = o.read
                                /\ o.lastModified = Some(o.read[1].updatedAt)
                    ELSE /\ o.status = 200
                         /\ o.lastModified = None
                         /\ o.body = Some([ gold |-> Rat(925, 10), silver |-> Rat(105, 100),
                                            platinum |-> Rat(312, 10),
                                            currencies |-> [ ILS |-> Rat(365, 100),
                                                             EUR |-> Rat(108, 100),
                                                             GBP |-> Rat(127, 100) ],
                                            updatedAt |-> ToISOString(now) ]) ]_vars

\* A stale snapshot is served, with its old updatedAt, after a refresh that
\* returned no data.
C14_Witness ==
  /\ out # None /\ out[1].kind = "prices" /\ RefreshFailed(out[1])
  /\ out[1].read # None /\ out[1].status = 200
  /\ out[1].body = out[1].read
  /\ out[1].at - GetTime(out[1].body[1].updatedAt) > 5 * 60 * 1000
  /\ store = out[1].read

\* 1 / x in JavaScript's arithmetic: NaN for a missing x, Infinity for 0
\* and for null.
Reciprocal(x) ==
  IF x = Undefined THEN NaN
  ELSE IF x = Null \/ x[1] = 0 THEN Infinity
  ELSE Rat(x[2], x[1])

\* The currencies a successful frankfurter.dev response stands for: ILS per
\* USD as quoted, USD per EUR and USD per GBP as the reciprocals of the quotes.
QuotedCurrencies ==
  { [ILS |-> q.ILS, EUR |-> Reciprocal(q.EUR), GBP |-> Reciprocal(q.GBP)]
      : q \in FrankfurterRates }

\* What C15 asks of a refresh record: c is the currency chain's result.
CurrenciesAsSpecified(r, c) ==
  /\ (r.clog = <<Attempt("frankfurter", TRUE)>>) => c \in QuotedCurrencies
  /\ (r.clog = <<Attempt("frankfurter", FALSE), Attempt("kv", TRUE)>>)
       => c = IF r.ccached # None
                THEN r.ccached[1].currencies
                ELSE [ILS |-> Rat(365, 100), EUR |-> Rat(108, 100), GBP |-> Rat(127, 100)]

\* C15: in both handlers, whatever the metal chain came to, the currencies
\* of the produced snapshot are the snapshot's currencies that the
\* fallback's cache read returned, or 3.65 / 1.08 / 1.27 when it returned
\* none, if the frankfurter.dev call was rejected or answered unsuccessfully
\* or unreadably; and rate(ILS), 1/rate(EUR), 1/rate(GBP) if it succeeded.
\* The body of a 200 response carries them in their JSON form.
C15_CurrenciesOfSnapshot ==
  /\ \A i \in Inv :
       LET r == inv[i] IN
       /\ r.currencies # None => CurrenciesAsSpecified(r, r.currencies[1])
       /\ r.fresh # None =>
            /\ r.clog \in { <<Attempt("frankfurter", TRUE)>>,
                            <<Attempt("frankfurter", FALSE), Attempt("kv", TRUE)>> }
            /\ CurrenciesAsSpecified(r, r.fresh[1].currencies)
  /\ (out # None /\ out[1].fresh # None) =>
       /\ CurrenciesAsSpecified(out[1], out[1].fresh[1].currencies)
       /\ out[1].status = 200 =>
            out[1].body[1].currencies = Json(out[1].fresh[1]).currencies

\* The currency provider succeeded while the metal chain fell back to the
\* cache, and the snapshot written carries the inverted rates.
C15_Witness ==
  /\ out # None /\ out[1].kind = "prices" /\ out[1].status = 200
  /\ out[1].fresh # None /\ store = Some(Json(out[1].fresh[1]))
  /\ out[1].clog = <<Attempt("frankfurter", TRUE)>>
  /\ FellBack(out[1].mlog)
  /\ out[1].body[1].currencies = [ILS |-> Rat(37, 10), EUR |-> Rat(10, 9), GBP |-> Rat(5, 4)]

\* A response of the on-demand handler after a cache read of its invocation
\* threw (a kvSet that throws comes after the one kvSet call is counted).
ReadFailed(o) == o.kind = "prices" /\ o.kvErrors = 1 /\ o.kvWrites = 0

\* C16 as stated: an on-demand invocation one of whose cache reads failed
\* answers with the 500 error.
C16_ReadFailureIs500 ==
  (out # None /\ ReadFailed(out[1])) => out[1].status = 500

\* C16: a failure of the handler's own first cache read is answered with
\* the 500 error "Failed to fetch prices", no provider called; a failure of
\* a cache read made by a chain's fallback inside the refresh is not
\* reported: the refresh returns no data and the invocation answers 200 or
\* 304 without an error.
C16_ReadFailureSurfacesAtFirstReadOnly ==
  (out # None /\ ReadFailed(out[1])) =>
    LET o == out[1] IN
    IF o.mlog = <<>> /\ o.clog = <<>>
      THEN /\ o.status = 500 /\ o.error = Some("Failed to fetch prices")
           /\ o.body = None /\ o.lastModified = None
           /\ o.kvReads = 1 /\ o.calls = {} /\ o.fresh = None
      ELSE /\ RefreshFailed(o)
           /\ o.status \in {200, 304} /\ o.error = None
           /\ o.fresh = None

\* The first read of an on-demand invocation failed over a store that holds
\* a snapshot, and the invocation answered 500.
C16_Witness ==
  /\ out # None /\ ReadFailed(out[1])
  /\ out[1].mlog = <<>> /\ out[1].clog = <<>>
  /\ out[1].status = 500
  /\ store # None

\* The inputs of a refresh that two refresh records share: what each
\* candidate's provider did, what each fallback read, and the clock at the
\* stamp (the credentials are the one process.env).
SameInputs(p, c) ==
  /\ p.mlog = c.mlog /\ p.clog = c.clog
  /\ p.mcached = c.mcached /\ p.ccached = c.ccached
  /\ p.fresh # None /\ c.fresh # None
  /\ p.fresh[1].updatedAt = c.fresh[1].updatedAt

\* C17: the refresh of the on-demand handler and the refresh of the
\* scheduled handler are the same sequence.  Each candidate comes to the
\* same result in both for every response of its provider, each fallback
\* makes the same of what its cache read returns, and the two stamps build
\* the same snapshot; an on-demand and a scheduled invocation that were
\* given the same inputs hold the same snapshot for their write; and in
\* both handlers the one kvSet, when the store applies it, leaves exactly
\* that snapshot in the store, and a response 200 after a refresh carries
\* exactly that snapshot.
C17_SameRefreshSequence ==
  [][ /\ GoldApiOutcomes.prices = GoldApiOutcomes.cron
      /\ MetalsDevOutcomes.prices = MetalsDevOutcomes.cron
      /\ FrankfurterOutcomes.prices = FrankfurterOutcomes.cron
      /\ \A c \in {None, store, store'} :
           /\ fetchMetals_LastResort(c) = fetchMetalPrices_LastResort(c)
           /\ fetchCurrencies_Fallback(c) = fetchCurrencyRates_Fallback(c)
      /\ \A i \in Inv :
           ChainsDone(inv'[i]) =>
             fetchFreshPrices(inv'[i].metals[1], inv'[i].currencies[1], now')
               = priceData(inv'[i].metals[1], inv'[i].currencies[1], now')
      /\ \A i, j \in Inv :
           (/\ inv'[i].kind = "prices" /\ inv'[j].kind = "cron"
            /\ SameInputs(inv'[i], inv'[j]))
             => inv'[i].fresh = inv'[j].fresh
      /\ \A i \in Inv :
           (inv[i].pc = "write" /\ inv'[i].pc = "written") =>
             /\ inv[i].kvWrites = 1
             /\ store' \in {store, Some(Json(inv[i].fresh[1]))}
             /\ inv'[i].kv = "ok" => store' = Some(Json(inv[i].fresh[1]))
      /\ (out' # None /\ out'[1].fresh # None /\ out'[1].kvErrors = 0) =>
           /\ out'[1].kvWrites = 1
           /\ out'[1].status = 200 => out'[1].body = Some(Json(out'[1].fresh[1]))
      /\ (out' # None /\ out'[1].kvErrors = 1) =>
           /\ store' = store
           /\ out'[1].status # 500 => out'[1].kind = "prices" /\ RefreshFailed(out'[1])
    ]_vars

\* An on-demand and a scheduled invocation, started on the same empty store
\* and given the same provider responses, hold the same snapshot for their
\* writes: metals from metals.dev, currencies from the fallback.
C17_Witness ==
  \E i, j \in Inv :
    /\ inv[i].kind = "prices" /\ inv[j].kind = "cron"
    /\ inv[i].pc = "write" /\ inv[j].pc = "write"
    /\ SameInputs(inv[i], inv[j])
    /\ inv[i].fresh = inv[j].fresh
    /\ Last(inv[i].mlog) = Attempt("metals.dev", TRUE)
    /\ FellBack(inv[i].clog)

\* The attempts of a chain follow the order of its candidates, each
\* candidate at most once, a later one only after the earlier ones failed.
InChainOrder(log, cands) ==
  /\ \A k \in DOMAIN log : \E n \in DOMAIN cands : log[k].cand = cands[n]
  /\ \A k, l \in DOMAIN log :
       k < l => /\ ~log[k].ok
                /\ \E n, m \in DOMAIN cands :
                     n < m /\ log[k].cand = cands[n] /\ log[l].cand = cands[m]

\* The statuses a handler answers with.
Statuses(kind) == IF kind = "prices" THEN {200, 304, 500} ELSE {200, 401, 500}

\* A step in which a response is sent.
Responds == out' # None /\ out'[1].status # 0

\* C18: every invocation runs to completion.  An invocation that has been
\* suspended is resumed until it has answered, and until nothing of it is
\* left; a response is sent in exactly the steps in which an invocation
\* answers (the step of its arrival, when it answers without being
\* suspended, or the step in which its handler returns), one invocation per
\* step, with a status of its handler, and an invocation that has answered
\* sends nothing more; and each chain attempts its candidates in order, each
\* at most once.
C18_RunsToCompletion ==
  /\ \A i \in Inv : (inv[i].pc \notin {"idle", "answered"})
                       ~> (inv[i].pc \in {"idle", "answered"})
  /\ \A i \in Inv : (inv[i].pc # "idle") ~> (inv[i].pc = "idle")
  /\ [][ LET answers == {i \in Inv : /\ inv[i].pc \notin {"idle", "answered"}
                                     /\ inv'[i].pc \in {"idle", "answered"}}
             arrived == started' = started + 1
         IN  /\ Cardinality(answers) <= 1
             /\ Responds <=> (answers # {} \/ (arrived /\ inv' = inv))
             /\ ~(answers # {} /\ arrived)
             /\ Responds => out'[1].status \in Statuses(out'[1].kind)
             /\ \A i \in answers : out'[1].kind = inv[i].kind
             /\ \A i \in Inv :
                  /\ inv[i].pc = "answered" => inv'[i].pc \in {"answered", "idle"}
                  /\ InChainOrder(inv'[i].mlog, <<"goldapi", "metals.dev", "kv">>)
                  /\ InChainOrder(inv'[i].clog, <<"frankfurter", "kv">>)
             /\ Responds =>
                  /\ InChainOrder(out'[1].mlog, <<"goldapi", "metals.dev", "kv">>)
                  /\ InChainOrder(out'[1].clog, <<"frankfurter", "kv">>)
       ]_vars

\* An on-demand invocation that went through all three metal candidates and
\* both currency candidates has answered.
C18_Witness ==
  /\ out # None /\ out[1].kind = "prices" /\ out[1].status = 200
  /\ Len(out[1].mlog) = 3 /\ Len(out[1].clog) = 2
  /\ \A i \in Inv : inv[i].pc = "idle"

\* Every provider of both chains failed or was passed over, and both
\* fallbacks read the cache.
AllProvidersFailed(r) == FellBack(r.mlog) /\ FellBack(r.clog)

\* The snapshot an all-fail refresh builds at clock t from what its two
\* fallbacks read: the old values, or the defaults, under the stamp t.
Restamped(mcached, ccached, t) ==
  LET m == IF mcached # None THEN mcached[1]
             ELSE [gold |-> Rat(925, 10), silver |-> Rat(105, 100), platinum |-> Rat(312, 10)]
      c == IF ccached # None THEN ccached[1].currencies
             ELSE [ILS |-> Rat(365, 100), EUR |-> Rat(108, 100), GBP |-> Rat(127, 100)]
  IN  [ gold |-> m.gold, silver |-> m.silver, platinum |-> m.platinum,
        currencies |-> c, updatedAt |-> ToISOString(t) ]

\* C19: an on-demand refresh in which every provider failed is carried
\* through like any other.  At the join it builds the old cached values (the
\* defaults, with nothing cached) under an updatedAt equal to the clock; its
\* write puts that snapshot into the store; and an on-demand request that
\* reads a snapshot not older than five minutes, this one included, calls no
\* provider, writes nothing and answers from it.
C19_AllFailRefreshIsFresh ==
  [][ /\ \A i \in Inv :
           (/\ inv[i].kind = "prices" /\ inv[i].pc = "refresh"
            /\ inv'[i].pc = "write" /\ AllProvidersFailed(inv[i]))
             => /\ inv'[i].fresh = Some(Restamped(inv[i].mcached, inv[i].ccached, now))
                /\ ~IsStale(inv'[i].fresh, now)
                /\ (inv[i].cached # None /\ inv[i].mcached = inv[i].cached
                      /\ inv[i].ccached = inv[i].cached)
                     => /\ MetalsOf(inv'[i].fresh[1]) = MetalsOf(inv[i].cached[1])
                        /\ inv'[i].fresh[1].currencies = inv[i].cached[1].currencies
                        /\ GetTime(inv'[i].fresh[1].updatedAt)
                             > GetTime(inv[i].cached[1].updatedAt) + 5 * 60 * 1000
      /\ \A i \in Inv :
           (/\ inv[i].kind = "prices" /\ inv[i].pc = "write" /\ inv'[i].pc = "written"
            /\ AllProvidersFailed(inv[i]) /\ inv'[i].kv = "ok")
             => store' = inv[i].fresh
      /\ (/\ out' # None /\ out'[1].kind = "prices"
          /\ out'[1].read # None
          /\ out'[1].at - GetTime(out'[1].read[1].updatedAt) <= 5 * 60 * 1000)
           => /\ out'[1].calls = {} /\ out'[1].kvWrites = 0
              /\ out'[1].status \in {200, 304}
              /\ out'[1].status = 200 => out'[1].body = out'[1].read
              /\ store' = store
    ]_vars

\* Five minutes after an all-fail refresh on an empty cache wrote the
\* defaults, an on-demand request is answered from them with no provider
\* called.
C19_Witness ==
  /\ out # None /\ out[1].kind = "prices" /\ out[1].status = 200
  /\ out[1].read = Some(Restamped(None, None, 0))
  /\ out[1].at = 5 * 60 * 1000
  /\ out[1].calls = {} /\ out[1].kvWrites = 0
  /\ store = out[1].read

\* C20 as stated: the two fallbacks of a refresh that is about to write have
\* read one and the same stored snapshot, whatever other invocations did.
C20_FallbacksReadOneSnapshot ==
  \A i \in Inv :
    (inv[i].pc = "write" /\ AllProvidersFailed(inv[i]))
      => inv[i].mcached = inv[i].ccached

\* C20: each fallback takes its values from what the store holds at its own
\* read.  A refresh whose two chains both fell back holds for its write the
\* metals of the one read and the currencies of the other (the defaults for
\* a read that found nothing); the two reads returned one and the same
\* stored snapshot whenever no other invocation's write reached the store
\* between them, and returned different ones only when one did.
C20_FallbacksAgreeUnlessCrossed ==
  \A i \in Inv :
    LET r == inv[i] IN
    (r.pc = "write" /\ AllProvidersFailed(r)) =>
      /\ r.fresh = Some(Restamped(r.mcached, r.ccached, GetTime(r.fresh[1].updatedAt)))
      /\ ~r.crossed => /\ r.mcached = r.ccached
                       /\ r.fresh = Some(Restamped(r.mcached, r.mcached,
                                                   GetTime(r.fresh[1].updatedAt)))
      /\ r.mcached # r.ccached => r.crossed

\* With no write in between, both fallbacks of a refresh read the same stored
\* snapshot, and the refresh holds its metals and its currencies for the
\* write.
C20_Witness ==
  \E i \in Inv :
    /\ inv[i].pc = "write" /\ AllProvidersFailed(inv[i]) /\ ~inv[i].crossed
    /\ inv[i].mcached # None /\ inv[i].mcached = inv[i].ccached
    /\ MetalsOf(inv[i].fresh[1]) = MetalsOf(store[1])
    /\ inv[i].fresh[1].currencies = store[1].currencies
    /\ inv[i].fresh[1].updatedAt # store[1].updatedAt

====
